---- MODULE Spec2Model ----
(***************************************************************************)
(* A model of kamstrup2mqtt's meter protocol core (parser.py): the         *)
(* CRC-16, the byte stuffing, the request frames built by send, the frame  *)
(* reader recv, the register decoding of readparameter, the parameter      *)
(* registry and the transaction loop of kamstrup_parser.run.               *)
(*                                                                         *)
(* Python strings are modelled as sequences of one-character strings, so   *)
(* that strip, isdigit, startswith, int(p, 0) and hex are computed rather  *)
(* than assumed.  Bytes are the integers 0..255.                           *)
(***************************************************************************)
EXTENDS Integers, Sequences, FiniteSets, TLC

VARIABLES
  parameters,       \* self.parameters: the list of parameter specs
  serialNone,       \* self.serial is None (serial_for_url failed in __init__)
  is_open,          \* self.serial.is_open
  pc,               \* the position of run(): idle, loop, recv, frame, done, raised
  idx,              \* the index (1-based) of the spec the for loop of run is at
  values,           \* the dict run builds: a sequence of [key, value], insertion-ordered
  receivedMessage,  \* recv's accumulation buffer
  line,             \* bytes the meter has sent that rd() has not read yet
  unanswered,       \* addresses of written requests the meter has not answered yet
  sending,          \* the rest of a response the meter has paused in the middle of
  written,          \* every command handed to serial.write that was written, in order
  trace,            \* per processed spec: what happened to it (history)
  consumed,         \* the bytes rd() returned to the recv call of the current spec
  error,            \* the exception that left run, "" when none did
  openResult,       \* what open() did in this run: none (not called), ok, failed
  cMsg,             \* codec check: the input byte sequence
  cPrefix,          \* codec check: the prefix byte given to send
  cStage,           \* codec check: which function has been applied
  cOut,             \* codec check: the resulting byte sequence
  cCrc,             \* codec check: the resulting checksum
  cExp,             \* codec check: the exponent byte given to the decoding
  cValue,           \* codec check: the decoded value, as num / den
  rVersion,         \* registry check: the version argument of __init__
  rEnv,             \* registry check: the KAMSTRUP_VERSION environment variable
  rTable,           \* registry check: the VERSION_OVERRIDES table
  rSpec,            \* registry check: the parameter spec to resolve
  rStage,           \* registry check: input, constructed, resolved
  rSelfVersion,     \* registry check: self.version
  rOut,             \* registry check: what _resolve_parameter_code returned
  dpc,              \* daemon: the position of KamstrupDaemon.run
  running,          \* daemon: self.running
  ha_discovery_published,  \* daemon: the local flag of run
  is_connected,     \* mqtt_handler.is_connected, set by the callbacks
  enabled_parameters,      \* the kamstrup parameters of the configuration
  discovery,        \* the discovery messages given to the MQTT client, in order
  cycle,            \* daemon: the number of the polling cycle
  readings,         \* daemon: the dict heat_meter.run() returned in this cycle
  outcomes,         \* daemon: per spec of this cycle, how its transaction ended
  handed,           \* daemon: the calls of mqtt_handler.publish in this cycle
  requests,         \* daemon: the number of requests written to the meter
  meter_open,       \* daemon: the serial port of the heat meter is open
  loop_stopped,     \* daemon: loop_stop() was called on the MQTT client
  disconnected,     \* daemon: disconnect() was called on the MQTT client
  signalled         \* daemon: signal_handler has run

vars == <<parameters, serialNone, is_open, pc, idx, values, receivedMessage, line,
          unanswered, sending, written, trace, consumed, error, openResult,
          cMsg, cPrefix, cStage, cOut, cCrc, cExp, cValue,
          rVersion, rEnv, rTable, rSpec, rStage, rSelfVersion, rOut,
          dpc, running, ha_discovery_published, is_connected, enabled_parameters,
          discovery, cycle, readings, outcomes, handed, requests, meter_open,
          loop_stopped, disconnected, signalled>>

engineVars == <<parameters, serialNone, is_open, pc, idx, values, receivedMessage,
                line, unanswered, sending, written, trace, consumed, error, openResult>>

codecVars == <<cMsg, cPrefix, cStage, cOut, cCrc, cExp, cValue>>

registryVars == <<rVersion, rEnv, rTable, rSpec, rStage, rSelfVersion, rOut>>

daemonVars == <<dpc, running, ha_discovery_published, is_connected, enabled_parameters,
                discovery, cycle, readings, outcomes, handed, requests, meter_open,
                loop_stopped, disconnected, signalled>>

(***************************************************************************)
(* Bounds of the model.                                                    *)
(***************************************************************************)
MaxLen == 3        \* longest byte sequence given to the codec functions
MaxSpecs == 2      \* longest parameter list given to run
MaxRead == 7       \* a trickling transport stops once a read was given this many bytes

Byte == 0..255

\* Bytes the codec functions are tried on in sequences: the five reserved
\* bytes, the complement of the escape byte, and a few ordinary bytes.
ByteSample == {0, 1, 6, 13, 27, 64, 128, 228, 255}

RECURSIVE SeqsUpTo(_, _)
SeqsUpTo(S, n) ==
  IF n = 0 THEN {<<>>}
  ELSE LET shorter == SeqsUpTo(S, n - 1)
       IN  shorter \cup {Append(s, b) : s \in {t \in shorter : Len(t) = n - 1}, b \in S}

(***************************************************************************)
(* Python's integer operators on non-negative integers.                    *)
(***************************************************************************)
\* a with the bit of weight k inverted
FlipBit(a, k) == IF (a \div k) % 2 = 1 THEN a - k ELSE a + k

\* a ^ b: every bit of a that is set in b is inverted (k is the weight of the
\* lowest bit of b not yet looked at)
RECURSIVE XorBits(_, _, _)
XorBits(a, b, k) ==
  IF b = 0 THEN a
  ELSE XorBits(IF b % 2 = 1 THEN FlipBit(a, k) ELSE a, b \div 2, 2 * k)

Xor(a, b) == XorBits(a, b, 1)

\* a & mask /= 0, for a mask with a single bit set
TestBit(a, mask) == (a \div mask) % 2 = 1

\* a >> 8 and a & 0xff
ShiftRight8(a) == a \div 256
Low8(a) == a % 256

(***************************************************************************)
(* crc_1021: the "true" CCITT CRC-16, parser.py lines 183-196.             *)
(***************************************************************************)
poly == 4129   \* 0x1021

\* One turn of the while loop: reg <<= 1; if byte & mask: reg |= 1;
\* if reg & 0x10000: reg &= 0xffff; reg ^= poly
CrcStep(reg, byte, mask) ==
  LET shifted == 2 * reg
      withBit == IF TestBit(byte, mask) THEN shifted + 1 ELSE shifted
  IN  IF TestBit(withBit, 65536) THEN Xor(withBit % 65536, poly) ELSE withBit

\* mask = 0x80; while (mask > 0): ...; mask >>= 1
CrcByte(reg, byte) ==
  LET m7 == CrcStep(reg, byte, 128)
      m6 == CrcStep(m7, byte, 64)
      m5 == CrcStep(m6, byte, 32)
      m4 == CrcStep(m5, byte, 16)
      m3 == CrcStep(m4, byte, 8)
      m2 == CrcStep(m3, byte, 4)
      m1 == CrcStep(m2, byte, 2)
  IN  CrcStep(m1, byte, 1)

\* reg = 0x0000; for byte in message: ...; return reg
crc_1021(message) ==
  LET loop[i \in 1..(Len(message) + 1), reg \in 0..65535] ==
        IF i > Len(message) THEN reg ELSE loop[i + 1, CrcByte(reg, message[i])]
  IN  loop[1, 0]

(***************************************************************************)
(* The byte stuffing: escapes (lines 199-205), the escape loop of send     *)
(* (lines 366-371) and the unescape loop of recv (lines 393-403).          *)
(***************************************************************************)
escapes == {6, 13, 27, 64, 128}

\* A stuffing that leaves the request prefix value 0x80 alone.
EscapeByteExcept128(byte) ==
  IF byte \in {6, 13, 27, 64} THEN <<27, Xor(byte, 255)>> ELSE <<byte>>

\* for byte in message: if byte in escapes: append 0x1b, byte ^ 0xff; else append byte
EscapeByte(byte) ==
  IF byte \in escapes THEN <<27, Xor(byte, 255)>> ELSE <<byte>>

RECURSIVE EscapeMessage(_)
EscapeMessage(message) ==
  IF message = <<>> THEN <<>>
  ELSE EscapeByte(Head(message)) \o EscapeMessage(Tail(message))

\* The two checksum bytes with the low byte first.
TrailerLowFirst(checksum) == <<Low8(checksum), ShiftRight8(checksum)>>

\* message[-2] = checksum >> 8; message[-1] = checksum & 0xff
Trailer(checksum) == <<ShiftRight8(checksum), Low8(checksum)>>

\* The checksum taken over the message alone, with no placeholder bytes.
WithChecksumUnpadded(msg) == msg \o Trailer(crc_1021(msg))

\* message.append(0) twice; checksum = crc_1021(message); then the two bytes
\* are overwritten with the checksum
WithChecksum(msg) == msg \o Trailer(crc_1021(msg \o <<0, 0>>))

\* A command whose checksum bytes are appended after the stuffing.
CommandRawTrailer(prefix, msg) ==
  <<prefix>> \o EscapeMessage(msg) \o Trailer(crc_1021(msg \o <<0, 0>>)) \o <<13>>

\* The command send(prefix, msg) hands to serial.write.
Command(prefix, msg) ==
  <<prefix>> \o EscapeMessage(WithChecksum(msg)) \o <<13>>

\* An unstuffing that clears the top bit only.
UnstuffLow7(byte) == byte % 128

\* value = receivedMessage[i + 1] ^ 0xff
Unstuff(byte) == Xor(byte, 255)

\* i = 1; while i < len(receivedMessage) - 1: ...   (j = i + 1, sequences are 1-based)
RECURSIVE FilterFrom(_, _)
FilterFrom(rm, j) ==
  IF j < Len(rm)
  THEN IF rm[j] = 27
       THEN <<Unstuff(rm[j + 1])>> \o FilterFrom(rm, j + 2)
       ELSE <<rm[j]>> \o FilterFrom(rm, j + 1)
  ELSE <<>>

\* filteredMessage of recv for a complete receivedMessage
Filtered(rm) == FilterFrom(rm, 2)

\* filteredMessage[:-2]
DropLast2(s) == IF Len(s) <= 2 THEN <<>> ELSE SubSeq(s, 1, Len(s) - 2)

\* A recv that returns the filtered message without testing its checksum.
RecvResultUntested(rm) == [none |-> FALSE, payload |-> DropLast2(Filtered(rm))]

\* What recv returns once the terminator has been read: None on a CRC error,
\* else the filtered message without its last two bytes.
RecvResult(rm) ==
  LET filteredMessage == Filtered(rm)
  IN  IF crc_1021(filteredMessage) # 0
      THEN [none |-> TRUE, payload |-> <<>>]
      ELSE [none |-> FALSE, payload |-> DropLast2(filteredMessage)]

(***************************************************************************)
(* Python strings, as sequences of one-character strings.                  *)
(***************************************************************************)
Digits == <<"0", "1", "2", "3", "4", "5", "6", "7", "8", "9">>
HexLower == <<"0", "1", "2", "3", "4", "5", "6", "7", "8", "9",
              "a", "b", "c", "d", "e", "f">>
HexUpper == <<"0", "1", "2", "3", "4", "5", "6", "7", "8", "9",
              "A", "B", "C", "D", "E", "F">>
Whitespace == {" ", "\t", "\n", "\r"}

Range(s) == {s[i] : i \in DOMAIN s}

IsDigitChar(c) == c \in Range(Digits)
IsHexChar(c) == c \in Range(HexLower) \cup Range(HexUpper)

\* The value of a hexadecimal (or decimal) digit character.
HexVal(c) ==
  IF c \in Range(HexLower)
  THEN (CHOOSE i \in DOMAIN HexLower : HexLower[i] = c) - 1
  ELSE (CHOOSE i \in DOMAIN HexUpper : HexUpper[i] = c) - 1

\* str.strip()
RECURSIVE LStrip(_)
LStrip(s) == IF s # <<>> /\ Head(s) \in Whitespace THEN LStrip(Tail(s)) ELSE s

RECURSIVE RStrip(_)
RStrip(s) ==
  IF s # <<>> /\ s[Len(s)] \in Whitespace THEN RStrip(SubSeq(s, 1, Len(s) - 1)) ELSE s

Strip(s) == RStrip(LStrip(s))

\* str.isdigit(), on ASCII text
IsDigit(s) == s # <<>> /\ \A i \in DOMAIN s : IsDigitChar(s[i])

\* str.startswith("0x")
StartsWith0x(s) == Len(s) >= 2 /\ s[1] = "0" /\ s[2] = "x"

\* The digits of a literal with its underscores removed.
RECURSIVE NoUnderscore(_)
NoUnderscore(s) ==
  IF s = <<>> THEN <<>>
  ELSE IF Head(s) = "_" THEN NoUnderscore(Tail(s))
       ELSE <<Head(s)>> \o NoUnderscore(Tail(s))

RECURSIVE DigitsValue(_, _, _)
DigitsValue(s, base, acc) ==
  IF s = <<>> THEN acc
  ELSE DigitsValue(Tail(s), base, (acc * base) + HexVal(Head(s)))

\* int(p, 0) for the texts _resolve_parameter_code gives it (p starts with
\* "0x" or is all digits): [ok |-> FALSE] stands for ValueError.  A hex
\* literal needs digits after the prefix, single underscores are allowed
\* before a digit; a decimal literal has no leading zero unless it is zero.
IntBase0(p) ==
  IF StartsWith0x(p)
  THEN LET rest == SubSeq(p, 3, Len(p))
           wellFormed ==
             /\ rest # <<>>
             /\ rest[Len(rest)] # "_"
             /\ \A i \in DOMAIN rest : IsHexChar(rest[i]) \/ rest[i] = "_"
             /\ \A i \in 1..(Len(rest) - 1) : ~(rest[i] = "_" /\ rest[i + 1] = "_")
       IN  IF wellFormed
           THEN [ok |-> TRUE, n |-> DigitsValue(NoUnderscore(rest), 16, 0)]
           ELSE [ok |-> FALSE, n |-> 0]
  ELSE IF p[1] # "0" \/ \A i \in DOMAIN p : p[i] = "0"
       THEN [ok |-> TRUE, n |-> DigitsValue(p, 10, 0)]
       ELSE [ok |-> FALSE, n |-> 0]

\* hex(n) for n >= 0
RECURSIVE HexDigitsOf(_)
HexDigitsOf(n) ==
  IF n < 16 THEN <<HexLower[n + 1]>>
  ELSE HexDigitsOf(n \div 16) \o <<HexLower[(n % 16) + 1]>>

Hex(n) == <<"0", "x">> \o HexDigitsOf(n)

(***************************************************************************)
(* The parameter registry, parser.py lines 29-81.                          *)
(***************************************************************************)
GENERIC_PARAMS ==
  <<
    [name |-> <<"e","n","e","r","g","y">>, code |-> 60],
    [name |-> <<"p","o","w","e","r">>, code |-> 80],
    [name |-> <<"t","e","m","p","1">>, code |-> 86],
    [name |-> <<"t","e","m","p","2">>, code |-> 87],
    [name |-> <<"t","e","m","p","d","i","f","f">>, code |-> 89],
    [name |-> <<"f","l","o","w">>, code |-> 74],
    [name |-> <<"v","o","l","u","m","e">>, code |-> 68],
    [name |-> <<"m","i","n","f","l","o","w","_","m">>, code |-> 141],
    [name |-> <<"m","a","x","f","l","o","w","_","m">>, code |-> 139],
    [name |-> <<"m","i","n","f","l","o","w","D","a","t","e","_","m">>, code |-> 140],
    [name |-> <<"m","a","x","f","l","o","w","D","a","t","e","_","m">>, code |-> 138],
    [name |-> <<"m","i","n","p","o","w","e","r","_","m">>, code |-> 145],
    [name |-> <<"m","a","x","p","o","w","e","r","_","m">>, code |-> 143],
    [name |-> <<"a","v","g","t","e","m","p","1","_","m">>, code |-> 149],
    [name |-> <<"a","v","g","t","e","m","p","2","_","m">>, code |-> 150],
    [name |-> <<"m","i","n","p","o","w","e","r","d","a","t","e","_","m">>, code |-> 144],
    [name |-> <<"m","a","x","p","o","w","e","r","d","a","t","e","_","m">>, code |-> 142],
    [name |-> <<"m","i","n","f","l","o","w","_","y">>, code |-> 126],
    [name |-> <<"m","a","x","f","l","o","w","_","y">>, code |-> 124],
    [name |-> <<"m","i","n","f","l","o","w","d","a","t","e","_","y">>, code |-> 125],
    [name |-> <<"m","a","x","f","l","o","w","d","a","t","e","_","y">>, code |-> 123],
    [name |-> <<"m","i","n","p","o","w","e","r","_","y">>, code |-> 130],
    [name |-> <<"m","a","x","p","o","w","e","r","_","y">>, code |-> 128],
    [name |-> <<"a","v","g","t","e","m","p","1","_","y">>, code |-> 146],
    [name |-> <<"a","v","g","t","e","m","p","2","_","y">>, code |-> 147],
    [name |-> <<"m","i","n","p","o","w","e","r","d","a","t","e","_","y">>, code |-> 129],
    [name |-> <<"m","a","x","p","o","w","e","r","d","a","t","e","_","y">>, code |-> 127],
    [name |-> <<"t","e","m","p","1","x","m","3">>, code |-> 97],
    [name |-> <<"t","e","m","p","2","x","m","3">>, code |-> 110],
    [name |-> <<"i","n","f","o","e","v","e","n","t">>, code |-> 113],
    [name |-> <<"h","o","u","r","c","o","u","n","t","e","r">>, code |-> 1004]
  >>

\* VERSION_OVERRIDES as shipped: every listed version has an empty override
\* table.
VERSION_OVERRIDES ==
  << [version |-> <<"4", "0", "2">>, overrides |-> <<>>],
     [version |-> <<"4", "0", "3">>, overrides |-> <<>>],
     [version |-> <<"6", "0", "3">>, overrides |-> <<>>] >>

\* table.get(str(version), {})
OverridesGet(table, version) ==
  IF \E i \in DOMAIN table : table[i].version = version
  THEN table[CHOOSE i \in DOMAIN table : table[i].version = version].overrides
  ELSE <<>>

HasName(map, name) == \E i \in DOMAIN map : map[i].name = name

CodeOf(map, name) == map[CHOOSE i \in DOMAIN map : map[i].name = name].code

\* A merge in which the generic entry wins over the override.
RECURSIVE UpdateMissingOnly(_, _)
UpdateMissingOnly(map, overrides) ==
  IF overrides = <<>> THEN map
  ELSE LET e == Head(overrides)
       IN  UpdateMissingOnly(IF HasName(map, e.name) THEN map ELSE Append(map, e),
                             Tail(overrides))

\* dict.update: an existing key keeps its place and takes the new value, a new
\* key is appended.
RECURSIVE Update(_, _)
Update(map, overrides) ==
  IF overrides = <<>> THEN map
  ELSE LET e == Head(overrides)
           next ==
             IF HasName(map, e.name)
             THEN [i \in DOMAIN map |-> IF map[i].name = e.name THEN e ELSE map[i]]
             ELSE Append(map, e)
       IN  Update(next, Tail(overrides))

\* _param_map_for_version(version), reading the override table given
MergedMap(table, version) ==
  LET v == IF version = <<>> THEN <<"4", "0", "2">> ELSE version
  IN  Update(GENERIC_PARAMS, OverridesGet(table, v))

param_map_for_version(version) == MergedMap(VERSION_OVERRIDES, version)

\* self.version after __init__ with version=None and no KAMSTRUP_VERSION set
DefaultVersion == <<"4", "0", "2">>

\* self.param_map
param_map == param_map_for_version(DefaultVersion)

\* A version argument, or the environment variable: absent, or a text.
NoVersion == [given |-> FALSE, text |-> <<>>]
Version(text) == [given |-> TRUE, text |-> text]

generic == <<"g", "e", "n", "e", "r", "i", "c">>

\* str.lower(), on ASCII text
UpperCase == <<"A", "B", "C", "D", "E", "F", "G", "H", "I", "J", "K", "L", "M",
               "N", "O", "P", "Q", "R", "S", "T", "U", "V", "W", "X", "Y", "Z">>
LowerCase == <<"a", "b", "c", "d", "e", "f", "g", "h", "i", "j", "k", "l", "m",
               "n", "o", "p", "q", "r", "s", "t", "u", "v", "w", "x", "y", "z">>

Lower(text) ==
  [i \in DOMAIN text |->
     IF \E k \in DOMAIN UpperCase : UpperCase[k] = text[i]
     THEN LowerCase[CHOOSE k \in DOMAIN UpperCase : UpperCase[k] = text[i]]
     ELSE text[i]]

\* self.version: lines 226-228
InitVersion(version, env) ==
  IF ~version.given \/ Lower(version.text) = generic
  THEN (IF env.given THEN env.text ELSE <<"4", "0", "2">>)
  ELSE version.text

(***************************************************************************)
(* Parameter specs.  kind "int": a Python int n; kind "str": the text s;   *)
(* kind "other": a value of any other type (a float, None).                *)
(***************************************************************************)
IntSpec(n) == [kind |-> "int", n |-> n, s |-> <<>>]
StrSpec(s) == [kind |-> "str", n |-> 0, s |-> s]
OtherSpec == [kind |-> "other", n |-> 0, s |-> <<>>]

NoCode == [none |-> TRUE, code |-> 0]
Code(n) == [none |-> FALSE, code |-> n]

\* A resolution that takes a spec of an unsupported type for address 0.
ResolveUnsupportedAsZero(map, parameter) ==
  IF parameter.kind = "int" THEN Code(parameter.n)
  ELSE IF parameter.kind = "str"
  THEN LET p == Strip(parameter.s)
           numeric == StartsWith0x(p) \/ IsDigit(p)
           parsed == IF numeric THEN IntBase0(p) ELSE [ok |-> FALSE, n |-> 0]
       IN  IF numeric /\ parsed.ok THEN Code(parsed.n)
           ELSE IF HasName(map, p) THEN Code(CodeOf(map, p))
           ELSE NoCode
  ELSE Code(0)

\* _resolve_parameter_code, parser.py lines 265-298, with self.param_map = map
ResolveWith(map, parameter) ==
  IF parameter.kind = "int" THEN Code(parameter.n)
  ELSE IF parameter.kind = "str"
  THEN LET p == Strip(parameter.s)
           numeric == StartsWith0x(p) \/ IsDigit(p)
           parsed == IF numeric THEN IntBase0(p) ELSE [ok |-> FALSE, n |-> 0]
       IN  IF numeric /\ parsed.ok THEN Code(parsed.n)
           ELSE IF HasName(map, p) THEN Code(CodeOf(map, p))
           ELSE NoCode
  ELSE NoCode

resolve_parameter_code(parameter) == ResolveWith(param_map, parameter)

\* The name the loop of run (lines 321-324) finds for an int spec: the first
\* name of param_map whose code equals it.
HasNameFor(n) == \E i \in DOMAIN param_map : param_map[i].code = n

FirstNameFor(n) ==
  LET i == CHOOSE k \in DOMAIN param_map :
             /\ param_map[k].code = n
             /\ \A m \in 1..(k - 1) : param_map[m].code # n
  IN  param_map[i].name

\* The key run stores a value under, lines 318-324.
KeyOf(parameter, code) ==
  IF parameter.kind = "str" THEN parameter.s
  ELSE IF parameter.kind = "int" /\ HasNameFor(parameter.n) THEN FirstNameFor(parameter.n)
  ELSE Hex(code)

(***************************************************************************)
(* readparameter, parser.py lines 411-440.                                 *)
(***************************************************************************)
\* The message readparameter gives to send: (0x3f, 0x10, 0x01, hi, lo)
\* The request with the two address bytes in little-endian order.
RequestBodyLowFirst(parameter) == <<63, 16, 1, Low8(parameter), ShiftRight8(parameter)>>

RequestBody(parameter) == <<63, 16, 1, ShiftRight8(parameter), Low8(parameter)>>

\* bytearray(msg) raises ValueError unless every item is in range(0, 256)
ValidBytes(msg) == \A i \in DOMAIN msg : msg[i] \in Byte

\* A header test that looks at the two fixed bytes only.
HeaderCheckFixedBytes(p, parameter) ==
  IF Len(p) < 2 THEN "IndexError"
  ELSE IF p[1] # 63 \/ p[2] # 16 THEN "invalid"
  ELSE "ok"

\* The header test of lines 419-422.  Python's `or` stops at the first true
\* operand, and indexing past the end of the payload raises IndexError.
HeaderCheck(p, parameter) ==
  LET want == <<63, 16, ShiftRight8(parameter), Low8(parameter)>>
      firstBad == IF \E i \in 1..4 : i > Len(p) \/ p[i] # want[i]
                  THEN CHOOSE i \in 1..4 :
                         /\ i > Len(p) \/ p[i] # want[i]
                         /\ \A k \in 1..(i - 1) : k <= Len(p) /\ p[k] = want[k]
                  ELSE 0
  IN  IF firstBad = 0 THEN "ok"
      ELSE IF firstBad > Len(p) THEN "IndexError"
      ELSE "invalid"

\* for i in range(0, receivedMessage[5]): value <<= 8; value |= receivedMessage[i + 7]
RECURSIVE Mantissa(_, _)
Mantissa(p, n) ==
  IF n = 0 THEN 0 ELSE (Mantissa(p, n - 1) * 256) + p[n + 7]

\* The decoding of lines 426-440 reads receivedMessage[5], then
\* receivedMessage[7 .. 6 + N], then receivedMessage[6] (0-based).
DecodeInRange(p) == Len(p) >= 7 /\ Len(p) >= 7 + p[6]

\* A decoding that takes the exponent's sign from bit 7 as well.
DecodeOneSignBit(p) ==
  LET mantissa == Mantissa(p, p[6])
      magnitude == p[7] % 64
      sign == IF TestBit(p[7], 128) THEN -1 ELSE 1
  IN  IF TestBit(p[7], 128)
      THEN [num |-> sign * mantissa, den |-> 10 ^ magnitude]
      ELSE [num |-> sign * mantissa * (10 ^ magnitude), den |-> 1]

\* float(mantissa * (+-)10 ** (+-)exponent), kept exact as num / den
Decode(p) ==
  LET mantissa == Mantissa(p, p[6])
      magnitude == p[7] % 64
      negExp == TestBit(p[7], 64)
      negVal == TestBit(p[7], 128)
      sign == IF negVal THEN -1 ELSE 1
  IN  IF negExp
      THEN [num |-> sign * mantissa, den |-> 10 ^ magnitude]
      ELSE [num |-> sign * mantissa * (10 ^ magnitude), den |-> 1]

\* What readparameter does with what recv returned for a complete frame:
\* kind "value" (with the value), "none" (with the warning's cause) or
\* "raise" (an IndexError leaves readparameter and run).
ReadResult(rm, parameter) ==
  LET r == RecvResult(rm)
      header == HeaderCheck(r.payload, parameter)
      NoValue == [num |-> 0, den |-> 1]
  IN  IF r.none THEN [kind |-> "none", why |-> "crc", value |-> NoValue]
      ELSE IF header = "IndexError"
      THEN [kind |-> "raise", why |-> "IndexError", value |-> NoValue]
      ELSE IF header = "invalid"
      THEN [kind |-> "none", why |-> "invalid", value |-> NoValue]
      ELSE IF ~DecodeInRange(r.payload)
      THEN [kind |-> "raise", why |-> "IndexError", value |-> NoValue]
      ELSE [kind |-> "value", why |-> "ok", value |-> Decode(r.payload)]

(***************************************************************************)
(* The dict run builds.                                                    *)
(***************************************************************************)
HasKey(d, key) == \E i \in DOMAIN d : d[i].key = key

Keys(d) == {d[i].key : i \in DOMAIN d}

\* values[key] = value
Put(d, key, value) ==
  IF HasKey(d, key)
  THEN [i \in DOMAIN d |-> IF d[i].key = key THEN [key |-> key, value |-> value] ELSE d[i]]
  ELSE Append(d, [key |-> key, value |-> value])

\* A store that takes the result of readparameter whatever it is.
StoreAlways(d, key, res) == Put(d, key, res.value)

\* if value is not None: ...; values[key] = value
Store(d, key, res) == IF res.kind = "value" THEN Put(d, key, res.value) ELSE d

(***************************************************************************)
(* The meter at the other end of the line: what it may answer to a request *)
(* for a register.  Frames follow the response layout recv and             *)
(* readparameter parse: 0x40, the escaped payload and checksum, 0x0D.      *)
(***************************************************************************)
RECURSIVE MeterEscape(_)
MeterEscape(s) ==
  IF s = <<>> THEN <<>>
  ELSE (IF Head(s) \in {6, 13, 27, 64, 128} THEN <<27, 255 - Head(s)>> ELSE <<Head(s)>>)
       \o MeterEscape(Tail(s))

MeterFrame(payload) == <<64>> \o MeterEscape(WithChecksum(payload)) \o <<13>>

\* A register value as the meter encodes it: unit, exponent byte, mantissa
\* bytes.  1234 * 10^2.
MeterValue == [unit |-> 8, exp |-> 2, mant |-> <<4, 210>>]

MeterPayload(address, v) ==
  <<63, 16, ShiftRight8(address), Low8(address), v.unit, Len(v.mant), v.exp>> \o v.mant

\* The last byte of a frame before the terminator, changed.
Corrupt(frame) ==
  [frame EXCEPT ![Len(frame) - 1] = IF @ = 255 THEN 254 ELSE @ + 1]

Responses(address) ==
  LET good == MeterFrame(MeterPayload(address, MeterValue))
  IN  \* the register's value, in a well-formed frame
      {good}
      \* line noise before the start marker
      \cup {<<65, 66>> \o good}
      \* the answer to another register
      \cup {MeterFrame(MeterPayload((address + 1) % 65536, MeterValue))}
      \* a damaged frame
      \cup {Corrupt(good)}
      \* a frame with an empty interior, and one of zero bytes only
      \cup {<<64, 13>>, <<64, 0, 0, 0, 13>>}
      \* a payload of the echo header only, and one shorter than its mantissa length
      \cup {MeterFrame(<<63, 16, ShiftRight8(address), Low8(address)>>)}
      \cup {MeterFrame(<<63, 16, ShiftRight8(address), Low8(address), 8, 4, 2, 4, 210>>)}
      \* a frame that stops before its terminator
      \cup {SubSeq(good, 1, 5)}
      \* a terminator with no start marker before it
      \cup {<<13>>}

(***************************************************************************)
(* The transaction engine: kamstrup_parser.run, parser.py lines 300-327,   *)
(* with open, close, rd, send, recv and readparameter.                     *)
(***************************************************************************)
energy == <<"e", "n", "e", "r", "g", "y">>
temp1 == <<"t", "e", "m", "p", "1">>
bogus_name == <<"b", "o", "g", "u", "s", "_", "n", "a", "m", "e">>

\* The specs parameter lists are drawn from: names (one of them unknown), ints
\* with and without a registered name (0x40 is a reserved byte), a decimal text.
SpecSample ==
  { StrSpec(energy), StrSpec(bogus_name),
    IntSpec(60), IntSpec(64), StrSpec(<<"6", "0">>) }

\* The list of the end-to-end scenario.
ScenarioList == <<StrSpec(energy), StrSpec(temp1), StrSpec(bogus_name)>>

\* Lists with an entry that is neither an int nor a str (parameters given as a
\* list are kept as they are, line 243).
UnsupportedLists ==
  { <<OtherSpec, StrSpec(energy)>>, <<IntSpec(60), OtherSpec>> }

ParameterLists == SeqsUpTo(SpecSample, MaxSpecs) \cup {ScenarioList} \cup UnsupportedLists

\* The addresses the sample specs resolve to, and the meter's possible answers
\* to each.
AddressSample ==
  {resolve_parameter_code(p).code :
     p \in {q \in SpecSample \cup Range(ScenarioList) : ~resolve_parameter_code(q).none}}

ResponseTable == [address \in AddressSample |-> Responses(address)]

LateResponse == [address \in AddressSample |-> MeterFrame(MeterPayload(address, MeterValue))]

\* The number of bytes of a response the meter sends before it pauses, when it
\* pauses: the start marker and the echo header.
PauseAfter == 5

CodecIdle ==
  /\ cMsg = <<>>
  /\ cPrefix = 0
  /\ cStage = "off"
  /\ cOut = <<>>
  /\ cCrc = 0
  /\ cExp = 0
  /\ cValue = [num |-> 0, den |-> 1]

DaemonIdle ==
  /\ dpc = "off"
  /\ running = FALSE
  /\ ha_discovery_published = FALSE
  /\ is_connected = FALSE
  /\ enabled_parameters = <<>>
  /\ discovery = <<>>
  /\ cycle = 0
  /\ readings = <<>>
  /\ outcomes = <<>>
  /\ handed = <<>>
  /\ requests = 0
  /\ meter_open = FALSE
  /\ loop_stopped = FALSE
  /\ disconnected = FALSE
  /\ signalled = FALSE

RegistryIdle ==
  /\ rVersion = NoVersion
  /\ rEnv = NoVersion
  /\ rTable = VERSION_OVERRIDES
  /\ rSpec = OtherSpec
  /\ rStage = "off"
  /\ rSelfVersion = DefaultVersion
  /\ rOut = NoCode

\* The parser after __init__, before run() is called.
Init ==
  /\ parameters \in ParameterLists
  /\ serialNone \in BOOLEAN
  /\ is_open \in BOOLEAN
  /\ serialNone => ~is_open
  /\ pc = "idle"
  /\ idx = 0
  /\ values = <<>>
  /\ receivedMessage = <<>>
  /\ line = <<>>
  /\ unanswered = <<>>
  /\ sending = <<>>
  /\ written = <<>>
  /\ trace = <<>>
  /\ consumed = <<>>
  /\ error = ""
  /\ openResult = "none"
  /\ CodecIdle
  /\ RegistryIdle
  /\ DaemonIdle

\* run() with self.serial None: lines 302-304
RunNoSerial ==
  /\ pc = "idle"
  /\ serialNone
  /\ pc' = "done"
  /\ UNCHANGED <<parameters, serialNone, is_open, idx, values, receivedMessage, line,
                 unanswered, written, trace, error, openResult>>
  /\ UNCHANGED consumed
  /\ UNCHANGED sending
  /\ UNCHANGED codecVars
  /\ UNCHANGED registryVars
  /\ UNCHANGED daemonVars

\* run() up to the for loop: close() when found open, then open(); lines 306-309
RunOpen ==
  /\ pc = "idle"
  /\ ~serialNone
  /\ \E opened \in BOOLEAN :
       /\ is_open' = opened
       /\ openResult' = IF opened THEN "ok" ELSE "failed"
       /\ pc' = IF opened THEN "loop" ELSE "done"
  /\ idx' = 1
  /\ UNCHANGED sending
  /\ UNCHANGED <<parameters, serialNone, values, receivedMessage, line, unanswered,
                 written, trace, error>>
  /\ UNCHANGED consumed
  /\ UNCHANGED codecVars
  /\ UNCHANGED registryVars
  /\ UNCHANGED daemonVars

Entry(code, wrote, status) ==
  [code |-> code, wrote |-> wrote, read |-> FALSE, status |-> status]

\* What serial.write may do: succeed, raise SerialTimeoutException (which send
\* logs and swallows), or raise another SerialException.
WriteOutcomes == {"ok", "timeout", "ioerror"}

\* One turn of the for loop up to recv: resolve the spec, and send the request.
\* Lines 310-315, 413, 353-377.
NextParameter ==
  /\ pc = "loop"
  /\ idx <= Len(parameters)
  /\ LET parameter == parameters[idx]
         r == resolve_parameter_code(parameter)
         body == RequestBody(r.code)
     IN  IF r.none
         THEN /\ trace' = Append(trace, Entry(0, "none", "unknown"))
              /\ idx' = idx + 1
              /\ UNCHANGED <<pc, error, written, unanswered, receivedMessage>>
         ELSE IF ~ValidBytes(body)
         THEN /\ trace' = Append(trace, Entry(r.code, "none", "raised"))
              /\ pc' = "raised"
              /\ error' = "ValueError"
              /\ UNCHANGED <<idx, written, unanswered, receivedMessage>>
         ELSE \E w \in WriteOutcomes :
                /\ trace' = Append(trace, Entry(r.code, w,
                                     IF w = "ioerror" THEN "raised" ELSE "pending"))
                /\ pc' = IF w = "ioerror" THEN "raised" ELSE "recv"
                /\ error' = IF w = "ioerror" THEN "SerialException" ELSE error
                /\ written' = IF w = "ok" THEN Append(written, Command(128, body))
                              ELSE written
                /\ unanswered' = IF w = "ok" THEN Append(unanswered, r.code)
                                 ELSE unanswered
                /\ receivedMessage' = <<>>
                /\ UNCHANGED idx
  /\ UNCHANGED <<parameters, serialNone, is_open, values, line, openResult>>
  /\ consumed' = <<>>
  /\ UNCHANGED sending
  /\ UNCHANGED codecVars
  /\ UNCHANGED registryVars
  /\ UNCHANGED daemonVars

\* The meter answers the oldest request it has not answered yet.  It may do so
\* while recv waits for that answer, with any of its responses; or late, after
\* recv has given up on that request, and then with the complete answer.
MeterRespond ==
  /\ pc \in {"recv", "loop"}
  /\ unanswered # <<>>
  /\ sending = <<>>
  /\ LET address == Head(unanswered)
         late == pc = "loop" \/ Len(unanswered) > 1
     IN  \/ /\ \E r \in IF late THEN {LateResponse[address]} ELSE ResponseTable[address] :
                  line' = line \o r
            /\ UNCHANGED sending
         \/ /\ ~late
            /\ line' = line \o SubSeq(LateResponse[address], 1, PauseAfter)
            /\ sending' = SubSeq(LateResponse[address], PauseAfter + 1,
                                  Len(LateResponse[address]))
  /\ unanswered' = Tail(unanswered)
  /\ UNCHANGED <<parameters, serialNone, is_open, pc, idx, values, receivedMessage,
                 written, trace, error, openResult>>
  /\ UNCHANGED consumed
  /\ UNCHANGED codecVars
  /\ UNCHANGED registryVars
  /\ UNCHANGED daemonVars

\* The meter goes on with the response it paused in.
MeterResume ==
  /\ pc \in {"recv", "loop"}
  /\ sending # <<>>
  /\ line' = line \o sending
  /\ sending' = <<>>
  /\ UNCHANGED <<parameters, serialNone, is_open, pc, idx, values, receivedMessage,
                 unanswered, written, trace, error, openResult>>
  /\ UNCHANGED consumed
  /\ UNCHANGED codecVars
  /\ UNCHANGED registryVars
  /\ UNCHANGED daemonVars

SetEntry(status) ==
  [trace EXCEPT ![Len(trace)] = [@ EXCEPT !.status = status, !.read = TRUE]]

\* An accumulation that never starts over.
AccumulateAll(buffer, receivedByte) == Append(buffer, receivedByte)

\* if receivedByte == 0x40: receivedMessage = bytearray()
\* receivedMessage.append(receivedByte)
Accumulate(buffer, receivedByte) ==
  IF receivedByte = 64 THEN <<receivedByte>> ELSE Append(buffer, receivedByte)

\* A timeout that hands the bytes accumulated so far to the rest of recv.
RecvTimeoutKeepsPartial ==
  /\ pc = "recv"
  /\ line = <<>>
  /\ pc' = "frame"
  /\ UNCHANGED <<parameters, serialNone, is_open, idx, values, receivedMessage, line,
                 unanswered, written, trace, consumed, error, openResult>>
  /\ UNCHANGED sending
  /\ UNCHANGED codecVars
  /\ UNCHANGED registryVars
  /\ UNCHANGED daemonVars

\* A timeout that sends the request of the spec once more before giving up.
RecvTimeoutRetries ==
  /\ pc = "recv"
  /\ line = <<>>
  /\ IF trace[Len(trace)].status = "pending"
     THEN /\ written' = Append(written, Command(128, RequestBody(trace[Len(trace)].code)))
          /\ trace' = SetEntry("retried")
          /\ UNCHANGED <<pc, idx>>
     ELSE /\ trace' = SetEntry("timeout")
          /\ pc' = "loop"
          /\ idx' = idx + 1
          /\ UNCHANGED written
  /\ receivedMessage' = <<>>
  /\ UNCHANGED <<parameters, serialNone, is_open, values, line, unanswered,
                 error, openResult>>
  /\ UNCHANGED consumed
  /\ UNCHANGED sending
  /\ UNCHANGED codecVars
  /\ UNCHANGED registryVars
  /\ UNCHANGED daemonVars

\* A recv that gives up once its buffer holds as many bytes as a response of
\* the meter has.
RecvByteBounded ==
  /\ pc = "recv"
  /\ line # <<>>
  /\ LET receivedByte == Head(line)
     IN  /\ receivedMessage' = Accumulate(receivedMessage, receivedByte)
         /\ pc' = IF receivedByte = 13 \/ Len(receivedMessage) >= 13
                  THEN "frame" ELSE "recv"
  /\ line' = Tail(line)
  /\ trace' = [trace EXCEPT ![Len(trace)] = [@ EXCEPT !.read = TRUE]]
  /\ UNCHANGED <<parameters, serialNone, is_open, idx, values, unanswered, written,
                 error, openResult>>
  /\ consumed' = Append(consumed, Head(line))
  /\ UNCHANGED sending
  /\ UNCHANGED codecVars
  /\ UNCHANGED registryVars
  /\ UNCHANGED daemonVars

\* One turn of the while loop of recv with a byte to read: lines 384-391
RecvByte ==
  /\ pc = "recv"
  /\ line # <<>>
  /\ LET receivedByte == Head(line)
     IN  /\ receivedMessage' = Accumulate(receivedMessage, receivedByte)
         /\ pc' = IF receivedByte = 13 THEN "frame" ELSE "recv"
  /\ line' = Tail(line)
  /\ trace' = [trace EXCEPT ![Len(trace)] = [@ EXCEPT !.read = TRUE]]
  /\ UNCHANGED <<parameters, serialNone, is_open, idx, values, unanswered, written,
                 error, openResult>>
  /\ consumed' = Append(consumed, Head(line))
  /\ UNCHANGED sending
  /\ UNCHANGED codecVars
  /\ UNCHANGED registryVars
  /\ UNCHANGED daemonVars

\* rd() times out: recv and readparameter return None, run goes to the next spec.
\* Lines 345-349, 385-386, 416-418.
RecvTimeout ==
  /\ pc = "recv"
  /\ line = <<>>
  /\ trace' = SetEntry("timeout")
  /\ receivedMessage' = <<>>
  /\ pc' = "loop"
  /\ idx' = idx + 1
  /\ UNCHANGED <<parameters, serialNone, is_open, values, line, unanswered, written,
                 error, openResult>>
  /\ UNCHANGED consumed
  /\ UNCHANGED sending
  /\ UNCHANGED codecVars
  /\ UNCHANGED registryVars
  /\ UNCHANGED daemonVars

\* The terminator was read: the rest of recv, the rest of readparameter and the
\* rest of the loop body of run.  Lines 393-409, 416-440, 316-325.
FrameDone ==
  /\ pc = "frame"
  /\ LET parameter == parameters[idx]
         code == trace[Len(trace)].code
         res == ReadResult(receivedMessage, code)
     IN  /\ trace' = SetEntry(IF res.kind = "raise" THEN "raised" ELSE res.why)
         /\ values' = Store(values, KeyOf(parameter, code), res)
         /\ pc' = IF res.kind = "raise" THEN "raised" ELSE "loop"
         /\ error' = IF res.kind = "raise" THEN res.why ELSE error
         /\ idx' = IF res.kind = "raise" THEN idx ELSE idx + 1
  /\ receivedMessage' = <<>>
  /\ UNCHANGED <<parameters, serialNone, is_open, line, unanswered, written, openResult>>
  /\ UNCHANGED consumed
  /\ UNCHANGED sending
  /\ UNCHANGED codecVars
  /\ UNCHANGED registryVars
  /\ UNCHANGED daemonVars

\* The for loop is over: close() and return values.  Lines 326-327, 338-343.
RunEnd ==
  /\ pc = "loop"
  /\ idx > Len(parameters)
  /\ is_open' = FALSE
  /\ pc' = "done"
  /\ UNCHANGED sending
  /\ UNCHANGED <<parameters, serialNone, idx, values, receivedMessage, line, unanswered,
                 written, trace, error, openResult>>
  /\ consumed' = <<>>
  /\ UNCHANGED codecVars
  /\ UNCHANGED registryVars
  /\ UNCHANGED daemonVars

Next ==
  \/ RunNoSerial
  \/ RunOpen
  \/ NextParameter
  \/ MeterRespond
  \/ MeterResume
  \/ RecvByte
  \/ RecvTimeout
  \/ FrameDone
  \/ RunEnd

Spec == Init /\ [][Next]_vars

(***************************************************************************)
(* run() on a transport that trickles: whenever recv waits for a byte, a   *)
(* byte that is neither the terminator nor the start marker may arrive     *)
(* instead of the timeout, until the read was given MaxRead bytes.         *)
(***************************************************************************)
TrickleByte == 65

TrickleLists ==
  { <<>>, <<StrSpec(energy)>>, <<StrSpec(bogus_name), StrSpec(energy)>>,
    <<StrSpec(energy), IntSpec(64)>> }

TrickleInit == Init /\ parameters \in TrickleLists

Trickle ==
  /\ pc = "recv"
  /\ line = <<>>
  /\ Len(consumed) < MaxRead
  /\ line' = <<TrickleByte>>
  /\ UNCHANGED <<parameters, serialNone, is_open, pc, idx, values, receivedMessage,
                 unanswered, sending, written, trace, consumed, error, openResult>>
  /\ UNCHANGED codecVars
  /\ UNCHANGED registryVars
  /\ UNCHANGED daemonVars

TrickleNext ==
  \/ RunNoSerial
  \/ RunOpen
  \/ NextParameter
  \/ MeterRespond
  \/ MeterResume
  \/ Trickle
  \/ RecvByte
  \/ RecvTimeout
  \/ FrameDone
  \/ RunEnd

\* The control of run() moves on: to another position, or to the next spec.
Advance ==
  /\ pc \in {"idle", "loop", "recv", "frame"}
  /\ pc' \in {"loop", "recv", "frame", "done", "raised"}
  /\ idx' \in {1, idx, idx + 1}

\* The parser is a running program whose steps complete, and every read of a
\* frame comes to a terminator or to a timeout: while run() has not ended,
\* its control eventually moves on.
TrickleSpec == TrickleInit /\ [][TrickleNext]_vars /\ WF_<<pc, idx>>(Advance)

(***************************************************************************)
(* The codec functions applied to byte sequences: crc_1021, the escape     *)
(* loop of send, the unescape loop of recv, and send followed by recv's    *)
(* validation.                                                             *)
(***************************************************************************)
\* Sequences of sample bytes, every single byte, and the bytes of 1234.
CodecInputs == SeqsUpTo(ByteSample, MaxLen) \cup {<<b>> : b \in Byte} \cup {MeterValue.mant}

\* The prefix bytes send is tried with: the request prefix, and reserved bytes.
PrefixSample == {128, 64, 27}

EngineOff ==
  /\ parameters = <<>>
  /\ serialNone = FALSE
  /\ is_open = FALSE
  /\ pc = "off"
  /\ idx = 0
  /\ values = <<>>
  /\ receivedMessage = <<>>
  /\ line = <<>>
  /\ unanswered = <<>>
  /\ sending = <<>>
  /\ written = <<>>
  /\ trace = <<>>
  /\ consumed = <<>>
  /\ error = ""
  /\ openResult = "none"

CodecInit ==
  /\ cMsg \in CodecInputs
  /\ cPrefix = 0
  /\ cStage = "input"
  /\ cOut = <<>>
  /\ cCrc = 0
  /\ cExp = 0
  /\ cValue = [num |-> 0, den |-> 1]
  /\ EngineOff
  /\ RegistryIdle
  /\ DaemonIdle

\* crc_1021(message)
ApplyCrc ==
  /\ cStage = "input"
  /\ cCrc' = crc_1021(cMsg)
  /\ cOut' = cMsg
  /\ cStage' = "crc"
  /\ UNCHANGED <<cMsg, cPrefix>>
  /\ UNCHANGED <<cExp, cValue>>
  /\ UNCHANGED engineVars
  /\ UNCHANGED registryVars
  /\ UNCHANGED daemonVars

\* crc_1021 of the message followed by two zero bytes, as send computes it
ApplyCrcPadded ==
  /\ cStage = "input"
  /\ cCrc' = crc_1021(cMsg \o <<0, 0>>)
  /\ cOut' = cMsg
  /\ cStage' = "crcPadded"
  /\ UNCHANGED <<cMsg, cPrefix>>
  /\ UNCHANGED <<cExp, cValue>>
  /\ UNCHANGED engineVars
  /\ UNCHANGED registryVars
  /\ UNCHANGED daemonVars

\* The checksum appended, high byte first, and crc_1021 run over the result
AppendAndRecheck ==
  /\ cStage \in {"crc", "crcPadded"}
  /\ LET extended == cMsg \o Trailer(cCrc)
     IN  /\ cOut' = extended
         /\ cCrc' = crc_1021(extended)
  /\ cStage' = IF cStage = "crc" THEN "rechecked" ELSE "recheckedPadded"
  /\ UNCHANGED <<cMsg, cPrefix>>
  /\ UNCHANGED <<cExp, cValue>>
  /\ UNCHANGED engineVars
  /\ UNCHANGED registryVars
  /\ UNCHANGED daemonVars

\* The escape loop of send
ApplyEscape ==
  /\ cStage = "input"
  /\ cOut' = EscapeMessage(cMsg)
  /\ cStage' = "escaped"
  /\ UNCHANGED <<cMsg, cPrefix, cCrc>>
  /\ UNCHANGED <<cExp, cValue>>
  /\ UNCHANGED engineVars
  /\ UNCHANGED registryVars
  /\ UNCHANGED daemonVars

\* The unescape loop of recv, on the escaped bytes between a first byte and a
\* terminator
ApplyUnescape ==
  /\ cStage = "escaped"
  /\ \E prefix \in PrefixSample :
       /\ cPrefix' = prefix
       /\ cOut' = Filtered(<<prefix>> \o cOut \o <<13>>)
  /\ cStage' = "unescaped"
  /\ UNCHANGED <<cMsg, cCrc>>
  /\ UNCHANGED <<cExp, cValue>>
  /\ UNCHANGED engineVars
  /\ UNCHANGED registryVars
  /\ UNCHANGED daemonVars

\* send(prefix, msg): the command written
ApplySend ==
  /\ cStage = "input"
  /\ \E prefix \in PrefixSample :
       /\ cPrefix' = prefix
       /\ cOut' = Command(prefix, cMsg)
  /\ cStage' = "sent"
  /\ UNCHANGED <<cMsg, cCrc>>
  /\ UNCHANGED <<cExp, cValue>>
  /\ UNCHANGED engineVars
  /\ UNCHANGED registryVars
  /\ UNCHANGED daemonVars

\* recv's unescape and checksum test on the command send built
ApplyValidate ==
  /\ cStage = "sent"
  /\ cOut' = Filtered(cOut)
  /\ cCrc' = crc_1021(Filtered(cOut))
  /\ cStage' = "validated"
  /\ UNCHANGED <<cMsg, cPrefix>>
  /\ UNCHANGED <<cExp, cValue>>
  /\ UNCHANGED engineVars
  /\ UNCHANGED registryVars
  /\ UNCHANGED daemonVars

\* The rest of recv (lines 393-409) on a complete receivedMessage whose bytes
\* between the start marker and the terminator are the input bytes
ApplyRecvRaw ==
  /\ cStage = "input"
  /\ \A i \in DOMAIN cMsg : cMsg[i] \notin {13, 64}
  /\ LET r == RecvResult(<<64>> \o cMsg \o <<13>>)
     IN  /\ cOut' = r.payload
         /\ cStage' = IF r.none THEN "rawRejected" ELSE "rawReturned"
  /\ UNCHANGED <<cMsg, cPrefix, cCrc>>
  /\ UNCHANGED <<cExp, cValue>>
  /\ UNCHANGED engineVars
  /\ UNCHANGED registryVars
  /\ UNCHANGED daemonVars

\* The rest of recv on the command send built
ApplyRecvSent ==
  /\ cStage = "sent"
  /\ LET r == RecvResult(cOut)
     IN  /\ cOut' = r.payload
         /\ cStage' = IF r.none THEN "sentRejected" ELSE "sentReturned"
  /\ UNCHANGED <<cMsg, cPrefix, cCrc>>
  /\ UNCHANGED <<cExp, cValue>>
  /\ UNCHANGED engineVars
  /\ UNCHANGED registryVars
  /\ UNCHANGED daemonVars

\* Exponent bytes the decoding is tried on: magnitudes 0, 1 and 2 with each
\* setting of the exponent-sign bit (0x40) and the value-sign bit (0x80).
ExponentSample == {0, 1, 2, 65, 66, 128, 130, 193, 194}

\* The checker's integers are 32 bits wide: the decoding is applied to
\* mantissas below 2^24 with exponent magnitudes up to 2.
FitsIntegers(mantissa, exponentByte) ==
  /\ \A i \in 1..(Len(mantissa) - 3) : mantissa[i] = 0
  /\ exponentByte % 64 <= 2

\* The decoding of readparameter (lines 426-440) on a payload that echoes
\* register 0x003C and whose mantissa bytes are the input bytes
ApplyDecode ==
  /\ cStage = "input"
  /\ \E exponentByte \in ExponentSample :
       /\ FitsIntegers(cMsg, exponentByte)
       /\ cExp' = exponentByte
       /\ cValue' = Decode(<<63, 16, 0, 60, 8, Len(cMsg), exponentByte>> \o cMsg)
  /\ cStage' = "decoded"
  /\ UNCHANGED <<cMsg, cPrefix, cOut, cCrc>>
  /\ UNCHANGED engineVars
  /\ UNCHANGED registryVars
  /\ UNCHANGED daemonVars

CodecNext ==
  \/ ApplyCrc
  \/ ApplyCrcPadded
  \/ AppendAndRecheck
  \/ ApplyEscape
  \/ ApplyUnescape
  \/ ApplySend
  \/ ApplyValidate
  \/ ApplyRecvRaw
  \/ ApplyRecvSent
  \/ ApplyDecode

CodecSpec == CodecInit /\ [][CodecNext]_vars

(***************************************************************************)
(* The registry and the resolution of specs: __init__ selects the version  *)
(* (lines 225-231), _param_map_for_version merges its overrides into the   *)
(* generic table, _resolve_parameter_code resolves a spec.                 *)
(***************************************************************************)
version_603 == <<"6", "0", "3">>
newname == <<"n", "e", "w", "n", "a", "m", "e">>

\* The override tables the registry is tried with: the one shipped, one that
\* moves energy and adds a name for version 603, one that moves temp1 for
\* version 402, and one with names that read as numbers.
TableSample ==
  { VERSION_OVERRIDES,
    << [version |-> version_603,
        overrides |-> << [name |-> energy, code |-> 153], [name |-> newname, code |-> 7] >>] >>,
    << [version |-> DefaultVersion,
        overrides |-> << [name |-> temp1, code |-> 154] >>] >>,
    << [version |-> DefaultVersion,
        overrides |-> << [name |-> <<"0", "0", "7">>, code |-> 5],
                         [name |-> <<"6", "0">>, code |-> 99] >>] >> }

VersionSample ==
  { NoVersion, Version(generic), Version(DefaultVersion), Version(version_603),
    Version(<<"9", "9", "9">>) }

EnvSample == { NoVersion, Version(version_603) }

\* Characters the texts to resolve are made of.
CharSample == {"0", "6", "7", "x", " "}

ResolveInputs ==
  {StrSpec(t) : t \in SeqsUpTo(CharSample, MaxLen)}
  \cup {StrSpec(t) : t \in {energy, temp1, bogus_name, newname,
                             <<" ">> \o energy \o <<" ">>,
                             <<"0", "x", "3", "C">>, <<"0", "x", "3", "c">>,
                             <<"0", "X", "3", "C">>, <<"0", "x", "Z", "Z">>}}
  \cup {IntSpec(0), IntSpec(60), IntSpec(64), OtherSpec}

RegistryInit ==
  /\ rVersion \in VersionSample
  /\ rEnv \in EnvSample
  /\ rTable \in TableSample
  /\ rSpec \in ResolveInputs
  /\ rStage = "input"
  /\ rSelfVersion = <<>>
  /\ rOut = NoCode
  /\ EngineOff
  /\ CodecIdle
  /\ DaemonIdle

\* __init__ up to self.version: lines 225-228
Construct ==
  /\ rStage = "input"
  /\ rSelfVersion' = InitVersion(rVersion, rEnv)
  /\ rStage' = "constructed"
  /\ UNCHANGED <<rVersion, rEnv, rTable, rSpec, rOut>>
  /\ UNCHANGED engineVars
  /\ UNCHANGED codecVars
  /\ UNCHANGED daemonVars

\* self.param_map = _param_map_for_version(self.version), then
\* _resolve_parameter_code(parameter)
Resolve ==
  /\ rStage = "constructed"
  /\ rOut' = ResolveWith(MergedMap(rTable, rSelfVersion), rSpec)
  /\ rStage' = "resolved"
  /\ UNCHANGED <<rVersion, rEnv, rTable, rSpec, rSelfVersion>>
  /\ UNCHANGED engineVars
  /\ UNCHANGED codecVars
  /\ UNCHANGED daemonVars

RegistryNext ==
  \/ Construct
  \/ Resolve

RegistrySpec == RegistryInit /\ [][RegistryNext]_vars

(***************************************************************************)
(* The daemon: KamstrupDaemon.run, signal_handler, cleanup and             *)
(* _publish_metrics of daemon.py, with publish, create_topic,              *)
(* publish_ha_discovery and the connection callbacks of mqtt.py.  The      *)
(* meter side of a cycle is kamstrup_parser.run reduced to how each        *)
(* transaction ends.  The callbacks run on the network thread of the MQTT  *)
(* client and interleave with every step of the loop.                      *)
(***************************************************************************)
MaxCycles == 2

minflowDate_m == <<"m", "i", "n", "f", "l", "o", "w", "D", "a", "t", "e", "_", "m">>

\* The kamstrup parameters of a configuration: names of the registry.
DaemonLists ==
  {<<>>, <<energy>>, <<energy, temp1>>, <<minflowDate_m, energy>>}

\* self.topic, mqtt.py line 45
topic == <<"k", "a", "m", "s", "t", "r", "u", "p">>

\* f"{self.topic}/{data}"
create_topic(data) == topic \o <<"/">> \o data

\* The value the meter reports in a cycle, a float.
Reading(c) == c

\* str(metric_value) of a float with no fraction: "1.0", "2.0"
Str(value) == <<Digits[value + 1], ".", "0">>

\* The discovery messages of publish_ha_discovery: one per enabled parameter.
DiscoveryMessages ==
  [i \in DOMAIN enabled_parameters |->
     [param |-> enabled_parameters[i],
      state_topic |-> create_topic(enabled_parameters[i])]]

DaemonInit ==
  /\ EngineOff
  /\ CodecIdle
  /\ RegistryIdle
  /\ dpc = "top"
  /\ running = TRUE
  /\ ha_discovery_published = FALSE
  /\ is_connected = FALSE
  /\ enabled_parameters \in DaemonLists
  /\ discovery = <<>>
  /\ cycle = 0
  /\ readings = <<>>
  /\ outcomes = <<>>
  /\ handed = <<>>
  /\ requests = 0
  /\ meter_open = TRUE
  /\ loop_stopped = FALSE
  /\ disconnected = FALSE
  /\ signalled = FALSE

\* while self.running: and the test of line 122
LoopTop ==
  /\ dpc = "top"
  /\ running
  /\ cycle < MaxCycles
  /\ cycle' = cycle + 1
  /\ dpc' = IF ~ha_discovery_published /\ is_connected THEN "discovery" ELSE "meter"
  /\ readings' = <<>>
  /\ outcomes' = <<>>
  /\ handed' = <<>>
  /\ UNCHANGED <<running, ha_discovery_published, is_connected, enabled_parameters,
                 discovery, requests, meter_open, loop_stopped, disconnected, signalled>>
  /\ UNCHANGED engineVars
  /\ UNCHANGED codecVars
  /\ UNCHANGED registryVars

\* publish_ha_discovery (returns at once when not connected), then
\* ha_discovery_published = True
Discovery ==
  /\ dpc = "discovery"
  /\ discovery' = IF is_connected THEN discovery \o DiscoveryMessages ELSE discovery
  /\ ha_discovery_published' = TRUE
  /\ dpc' = "meter"
  /\ UNCHANGED <<running, is_connected, enabled_parameters, cycle, readings, outcomes,
                 handed, requests, meter_open, loop_stopped, disconnected, signalled>>
  /\ UNCHANGED engineVars
  /\ UNCHANGED codecVars
  /\ UNCHANGED registryVars

\* One transaction of heat_meter.run(): the request is written and the
\* parameter is recorded, fails, or an exception leaves run.
Transaction ==
  /\ dpc = "meter"
  /\ Len(outcomes) < Len(enabled_parameters)
  /\ requests' = requests + 1
  /\ \E outcome \in {"ok", "failed", "raised"} :
       /\ outcomes' = Append(outcomes, outcome)
       /\ readings' = IF outcome = "ok"
                      THEN Put(readings, enabled_parameters[Len(outcomes) + 1], Reading(cycle))
                      ELSE IF outcome = "raised" THEN <<>> ELSE readings
       /\ dpc' = IF outcome = "raised" THEN "sleep" ELSE "meter"
  /\ meter_open' = TRUE
  /\ UNCHANGED <<running, ha_discovery_published, is_connected, enabled_parameters,
                 discovery, cycle, handed, loop_stopped, disconnected, signalled>>
  /\ UNCHANGED engineVars
  /\ UNCHANGED codecVars
  /\ UNCHANGED registryVars

\* The end of heat_meter.run() and the test of line 133
ReadEnd ==
  /\ dpc = "meter"
  /\ Len(outcomes) = Len(enabled_parameters)
  /\ meter_open' = FALSE
  /\ dpc' = IF readings # <<>> THEN "publish" ELSE "sleep"
  /\ UNCHANGED <<running, ha_discovery_published, is_connected, enabled_parameters,
                 discovery, cycle, readings, outcomes, handed, requests,
                 loop_stopped, disconnected, signalled>>
  /\ UNCHANGED engineVars
  /\ UNCHANGED codecVars
  /\ UNCHANGED registryVars

\* What mqtt_handler.publish does with a message.
PublishResults == IF is_connected THEN {"sent", "error"} ELSE {"dropped"}

\* One turn of the loop of _publish_metrics that stops at the first failure.
PublishStepStopsOnError ==
  /\ dpc = "publish"
  /\ Len(handed) < Len(readings)
  /\ \E result \in PublishResults :
       LET item == readings[Len(handed) + 1]
       IN  /\ handed' = Append(handed, [name |-> item.key,
                                        topic |-> create_topic(Lower(item.key)),
                                        message |-> Str(item.value),
                                        result |-> result])
           /\ dpc' = IF Len(handed') = Len(readings) \/ result = "error"
                     THEN "sleep" ELSE "publish"
  /\ UNCHANGED <<running, ha_discovery_published, is_connected, enabled_parameters,
                 discovery, cycle, readings, outcomes, requests, meter_open,
                 loop_stopped, disconnected, signalled>>
  /\ UNCHANGED engineVars
  /\ UNCHANGED codecVars
  /\ UNCHANGED registryVars

\* One turn of the loop of _publish_metrics: publish(metric_name, str(value))
PublishStep ==
  /\ dpc = "publish"
  /\ Len(handed) < Len(readings)
  /\ \E result \in PublishResults :
       LET item == readings[Len(handed) + 1]
       IN  /\ handed' = Append(handed, [name |-> item.key,
                                        topic |-> create_topic(Lower(item.key)),
                                        message |-> Str(item.value),
                                        result |-> result])
           /\ dpc' = IF Len(handed') = Len(readings) THEN "sleep" ELSE "publish"
  /\ UNCHANGED <<running, ha_discovery_published, is_connected, enabled_parameters,
                 discovery, cycle, readings, outcomes, requests, meter_open,
                 loop_stopped, disconnected, signalled>>
  /\ UNCHANGED engineVars
  /\ UNCHANGED codecVars
  /\ UNCHANGED registryVars

\* time.sleep(int(self.poll_interval) * 60)
Sleep ==
  /\ dpc = "sleep"
  /\ dpc' = "top"
  /\ UNCHANGED <<running, ha_discovery_published, is_connected, enabled_parameters,
                 discovery, cycle, readings, outcomes, handed, requests, meter_open,
                 loop_stopped, disconnected, signalled>>
  /\ UNCHANGED engineVars
  /\ UNCHANGED codecVars
  /\ UNCHANGED registryVars

\* A handler that only asks the loop to stop.
SignalFlagOnly ==
  /\ dpc \in {"top", "discovery", "meter", "publish", "sleep"}
  /\ ~signalled
  /\ running' = FALSE
  /\ signalled' = TRUE
  /\ UNCHANGED <<dpc, ha_discovery_published, is_connected, enabled_parameters,
                 discovery, cycle, readings, outcomes, handed, requests, meter_open,
                 loop_stopped, disconnected>>
  /\ UNCHANGED engineVars
  /\ UNCHANGED codecVars
  /\ UNCHANGED registryVars

\* signal_handler: running = False, cleanup(), sys.exit(0); SystemExit passes
\* every except clause of the loop and the finally of run cleans up again.
Signal ==
  /\ dpc \in {"top", "discovery", "meter", "publish", "sleep"}
  /\ ~signalled
  /\ running' = FALSE
  /\ signalled' = TRUE
  /\ meter_open' = FALSE
  /\ loop_stopped' = TRUE
  /\ disconnected' = TRUE
  /\ dpc' = "exited"
  /\ UNCHANGED <<ha_discovery_published, is_connected, enabled_parameters,
                 discovery, cycle, readings, outcomes, handed, requests>>
  /\ UNCHANGED engineVars
  /\ UNCHANGED codecVars
  /\ UNCHANGED registryVars

\* _on_connect on the network thread: rc = 0 or not
OnConnect ==
  /\ dpc \in {"top", "discovery", "meter", "publish", "sleep"}
  /\ ~loop_stopped
  /\ \E rc \in {0, 5} : is_connected' = (rc = 0)
  /\ is_connected' # is_connected
  /\ UNCHANGED <<dpc, running, ha_discovery_published, enabled_parameters,
                 discovery, cycle, readings, outcomes, handed, requests, meter_open,
                 loop_stopped, disconnected, signalled>>
  /\ UNCHANGED engineVars
  /\ UNCHANGED codecVars
  /\ UNCHANGED registryVars

\* _on_disconnect on the network thread
OnDisconnect ==
  /\ dpc \in {"top", "discovery", "meter", "publish", "sleep"}
  /\ ~loop_stopped
  /\ is_connected
  /\ is_connected' = FALSE
  /\ UNCHANGED <<dpc, running, ha_discovery_published, enabled_parameters,
                 discovery, cycle, readings, outcomes, handed, requests, meter_open,
                 loop_stopped, disconnected, signalled>>
  /\ UNCHANGED engineVars
  /\ UNCHANGED codecVars
  /\ UNCHANGED registryVars

DaemonNext ==
  \/ LoopTop
  \/ Discovery
  \/ Transaction
  \/ ReadEnd
  \/ PublishStep
  \/ Sleep
  \/ Signal
  \/ OnConnect
  \/ OnDisconnect

DaemonSpec == DaemonInit /\ [][DaemonNext]_vars

(***************************************************************************)
(* Properties of run(), checked under Spec.  trace[i] is the record of the *)
(* transaction of parameters[i].                                           *)
(***************************************************************************)
\* The key a spec's value is specified to be stored under: the name registered
\* for the resolved address, else the hex text of the address.  A spec that
\* does not resolve is known by its text only.
ResolvedKey(parameter) ==
  LET r == resolve_parameter_code(parameter)
  IN  IF r.none THEN (IF parameter.kind = "str" THEN parameter.s ELSE <<>>)
      ELSE IF HasNameFor(r.code) THEN FirstNameFor(r.code)
      ELSE Hex(r.code)

\* The key run() stored, or would have stored, the value of parameters[i] under.
StoredKey(i) == KeyOf(parameters[i], trace[i].code)

Succeeded(i) == trace[i].status = "ok"

Failed(i) == trace[i].status \in {"unknown", "timeout", "crc", "invalid"}

\* run() has returned its dict.
Returned == pc = "done"

\* The last request of the trace went out on the wire.
JustWritten == trace # <<>> /\ trace[Len(trace)].wrote = "ok" /\ written # <<>>

\* C1: whatever the specs and whatever bytes the transport delivers, run()
\* returns a dict; it leaves by an exception only when the write to the
\* transport fails with an I/O error.
C1_RunFailsOnlyOnTransportIo ==
  pc = "raised" => error = "SerialException"

\* C2, as stated: for every spec of the list whose transaction failed, the
\* returned dict has no entry under that spec's key.
C2_FailedSpecKeyIsAbsent ==
  Returned =>
    \A i \in DOMAIN trace :
      Failed(i) => ~HasKey(values, ResolvedKey(parameters[i]))

\* C2, amended: a failed transaction adds no entry.  For every spec of the
\* list whose transaction failed, the returned dict has an entry under that
\* spec's key (the resolved key, or the key run() uses) only if another spec
\* of the list stored it with a transaction that succeeded.
C2_FailedSpecAddsNoEntry ==
  Returned =>
    \A i \in DOMAIN trace :
      Failed(i) =>
        \A key \in {ResolvedKey(parameters[i]), StoredKey(i)} :
          HasKey(values, key) =>
            \E j \in DOMAIN trace : j # i /\ Succeeded(j) /\ StoredKey(j) = key

\* A returned dict that holds the key of a failed spec, stored by another
\* occurrence of the same key.
C2_Witness ==
  /\ Returned
  /\ \E i \in DOMAIN trace :
       /\ Failed(i)
       /\ trace[i].status # "unknown"
       /\ HasKey(values, ResolvedKey(parameters[i]))

\* C3: the value of every spec whose transaction succeeded is in the returned
\* dict under the name registered for the resolved address, or under the hex
\* text of the address when no name is registered.
C3_StoredUnderResolvedKey ==
  Returned =>
    \A i \in DOMAIN trace :
      Succeeded(i) => HasKey(values, ResolvedKey(parameters[i]))

\* C4: a failure to open the transport, or to write a request, ends run() with
\* an error and not with a returned dict, and no response is read for a request
\* whose write failed.
C4_OpenOrWriteFailureIsFatal ==
  /\ openResult = "failed" => pc = "raised"
  /\ \A i \in DOMAIN trace :
       trace[i].wrote \in {"timeout", "ioerror"} => pc = "raised" /\ ~trace[i].read

\* C5: the keys of the returned dict are exactly the resolved keys of the specs
\* of the list whose transaction succeeded.
C5_KeysAreTheSucceededSpecs ==
  Returned =>
    Keys(values) = {ResolvedKey(parameters[i]) : i \in {j \in DOMAIN trace : Succeeded(j)}}

\* The request frame for a register, built from the five-byte body with a
\* stuffing written with 255 - byte.
RequestReference ==
  [address \in AddressSample |->
     LET body == <<63, 16, 1, address \div 256, address % 256>>
         checksum == crc_1021(body \o <<0, 0>>)
     IN  <<128>> \o MeterEscape(body \o <<checksum \div 256, checksum % 256>>) \o <<13>>]

\* C6, as stated: every request written is 0x80, the escaped body and
\* checksum, 0x0D, where the body is the four bytes function, sub-function,
\* address high, address low.
C6_RequestBodyIsFourBytes ==
  JustWritten =>
    LET frame == written[Len(written)]
        body == DropLast2(Filtered(frame))
        address == trace[Len(trace)].code
    IN  /\ frame[1] = 128
        /\ frame[Len(frame)] = 13
        /\ Len(body) = 4
        /\ body[3] = address \div 256
        /\ body[4] = address % 256

\* C6, amended: every request written is 0x80 unescaped, the escaped sequence
\* body ++ crc_hi ++ crc_lo, 0x0D, where the body is the five bytes 0x3F, 0x10,
\* 0x01, address high, address low.
C6_RequestIsTheFiveByteFrame ==
  JustWritten =>
    written[Len(written)] = RequestReference[trace[Len(trace)].code]

\* A request for register 0x40, whose low address byte goes out escaped.
C6_Witness ==
  /\ JustWritten
  /\ trace[Len(trace)].code = 64
  /\ SubSeq(written[Len(written)], 1, 7) = <<128, 63, 16, 1, 0, 27, 191>>

(***************************************************************************)
(* Properties of the codec functions, checked under CodecSpec.             *)
(***************************************************************************)

\* C7, as stated: for every byte sequence m, crc_1021 run over m followed by
\* crc_1021(m) as two bytes, high byte first, is zero.
C7_RecheckOfAppendedCrcIsZero ==
  cStage = "rechecked" => cCrc = 0

\* C7, amended: for every byte sequence m, with the checksum computed over m
\* followed by two zero bytes and appended to m high byte first, crc_1021 run
\* over the extended sequence is zero.
C7_RecheckOfPaddedCrcIsZero ==
  cStage = "recheckedPadded" => cCrc = 0

\* A message whose appended checksum has two different non-zero bytes.
C7_Witness ==
  /\ cStage = "recheckedPadded"
  /\ cMsg = <<1>>
  /\ cOut = <<1, 16, 33>>

\* C8: for every prefix and body, the interior of the command send builds,
\* unescaped as recv does, has checksum zero; without its last two bytes it is
\* the body; and those two bytes are the checksum of the body followed by two
\* zero bytes, high byte first.
C8_SentFramePassesValidation ==
  cStage = "validated" =>
    LET checksum == crc_1021(cMsg \o <<0, 0>>)
        n == Len(cOut)
    IN  /\ cCrc = 0
        /\ n = Len(cMsg) + 2
        /\ DropLast2(cOut) = cMsg
        /\ cOut[n - 1] = checksum \div 256
        /\ cOut[n] = checksum % 256

\* A validated command whose body holds reserved bytes, sent with the request
\* prefix.
C8_Witness ==
  /\ cStage = "validated"
  /\ cPrefix = 128
  /\ cMsg = <<128, 13, 27>>
  /\ DropLast2(cOut) = cMsg

\* C9: for every byte sequence b, the unescape loop of recv applied to the
\* output of the escape loop of send gives b.
C9_UnescapeOfEscapeIsIdentity ==
  cStage = "unescaped" => cOut = cMsg

\* A round trip of a sequence of a reserved byte, the escape byte and the
\* image of a reserved byte.
C9_Witness ==
  /\ cStage = "unescaped"
  /\ cMsg = <<13, 27, 228>>
  /\ cOut = cMsg

\* C10: the escape loop replaces every byte of {0x06, 0x0D, 0x1B, 0x40, 0x80}
\* by 0x1B and the byte XOR 0xFF, and copies every other byte, in order.
C10_EscapeAgreesWithReference ==
  cStage = "escaped" =>
    LET reserved == {6, 13, 27, 64, 128}
        before(i) == Cardinality({j \in 1..(i - 1) : cMsg[j] \in reserved})
        at(i) == i + before(i)
    IN  /\ Len(cOut) = at(Len(cMsg) + 1) - 1
        /\ \A i \in DOMAIN cMsg :
             IF cMsg[i] \in reserved
             THEN cOut[at(i)] = 27 /\ cOut[at(i) + 1] = 255 - cMsg[i]
             ELSE cOut[at(i)] = cMsg[i]

\* The escape of a sequence with reserved bytes around a plain one.
C10_Witness ==
  /\ cStage = "escaped"
  /\ cMsg = <<128, 1, 13>>
  /\ cOut = <<27, 127, 1, 27, 242>>

(***************************************************************************)
(* Properties of recv, of the decoding and of the resolution of specs.     *)
(***************************************************************************)
\* The complete receivedMessage the recv of the codec run worked on.
RecvFrame ==
  IF cStage \in {"rawReturned", "rawRejected"} THEN <<64>> \o cMsg \o <<13>>
  ELSE Command(cPrefix, cMsg)

LastEntry == trace[Len(trace)]

\* The recv call of the last spec has returned a payload to readparameter,
\* which returned or raised: consumed holds what that call read.
RecvReturnedPayload ==
  /\ pc \in {"loop", "raised"}
  /\ trace # <<>>
  /\ LastEntry.read
  /\ LastEntry.status \in {"ok", "invalid", "raised"}

\* C12: recv returns a payload only for a frame that runs from a start marker
\* 0x40 to the terminator: when the bytes read up to the terminator hold no
\* 0x40, no payload is returned.
C12_NoPayloadWithoutStartMarker ==
  RecvReturnedPayload => 64 \in Range(consumed)

\* The part of a byte sequence from its last 0x40 on; all of it when it holds
\* none.
FromLastMarker(s) ==
  LET markers == {i \in DOMAIN s : s[i] = 64}
  IN  IF markers = {} THEN s
      ELSE SubSeq(s, CHOOSE i \in markers : \A k \in markers : k <= i, Len(s))

\* C13: while recv accumulates, a byte 0x40 discards what was accumulated: the
\* buffer, and so the completed frame, is what was read from the last 0x40 on.
C13_FrameStartsAtLastMarker ==
  pc \in {"recv", "frame"} => receivedMessage = FromLastMarker(consumed)

\* A completed frame with two bytes of noise dropped from before its marker.
C13_Witness ==
  /\ pc = "frame"
  /\ Len(consumed) > 2
  /\ SubSeq(consumed, 1, 3) = <<65, 66, 64>>
  /\ receivedMessage = SubSeq(consumed, 3, Len(consumed))

\* C14: when a read of a byte times out, before the first byte or after any
\* number of them, recv returns nothing: the bytes accumulated are dropped
\* unparsed, no value is stored, and run goes on to the next spec.
C14_TimeoutAbortsTheRead ==
  [][(pc = "recv" /\ line = <<>> /\ pc' # "recv") =>
       /\ pc' = "loop"
       /\ idx' = idx + 1
       /\ values' = values
       /\ error' = error
       /\ trace'[Len(trace')].status = "timeout"]_vars

\* A timeout after the first five bytes of a frame.
C14_Witness ==
  /\ pc = "loop"
  /\ trace # <<>>
  /\ LastEntry.status = "timeout"
  /\ Len(consumed) = 5
  /\ consumed[1] = 64
  /\ receivedMessage = <<>>

\* The frames the meter may send, and those of them whose unescaped interior
\* has checksum zero, each with its payload.
MeterFrames == UNION {ResponseTable[address] : address \in AddressSample}

ChecksumValidFrames == {f \in MeterFrames : crc_1021(Filtered(f)) = 0}

PayloadOf == [f \in ChecksumValidFrames |-> DropLast2(Filtered(f))]

\* The value stored under a key of the dict.
ValueAt(d, key) == d[CHOOSE i \in DOMAIN d : d[i].key = key].value

\* readparameter has just returned a value for the last spec and run has
\* stored it: consumed holds the bytes that value was read from.
JustStored == pc = "loop" /\ trace # <<>> /\ LastEntry.status = "ok"

\* C15: every value stored was decoded from a frame with a valid checksum
\* whose payload bytes 2-3 are the address requested for that spec, high
\* byte first; a response echoing another address is never recorded.
C15_StoredValueEchoesRequestedAddress ==
  JustStored =>
    LET frame == FromLastMarker(consumed)
        key == KeyOf(parameters[Len(trace)], LastEntry.code)
    IN  /\ frame \in ChecksumValidFrames
        /\ Len(PayloadOf[frame]) >= 4
        /\ (PayloadOf[frame][3] * 256) + PayloadOf[frame][4] = LastEntry.code
        /\ HasKey(values, key)
        /\ ValueAt(values, key) = Decode(PayloadOf[frame])

\* The value of register 0x3C stored from the frame that echoes 0x003C, read
\* after two bytes of noise.
C15_Witness ==
  /\ JustStored
  /\ LastEntry.code = 60
  /\ SubSeq(consumed, 1, 7) = <<65, 66, 64, 63, 16, 0, 60>>
  /\ HasKey(values, energy)

\* A byte sequence read as a big-endian unsigned integer.
RECURSIVE BigEndian(_)
BigEndian(bytes) ==
  IF bytes = <<>> THEN 0
  ELSE (Head(bytes) * (256 ^ (Len(bytes) - 1))) + BigEndian(Tail(bytes))

\* C16: the decoded value is M x 10^e, negated when bit 7 of the exponent byte
\* is set, where M is the mantissa bytes read big-endian and e is the low 6
\* bits of the exponent byte, negative when bit 6 is set.
C16_DecodedValueIsMantissaTimesPowerOfTen ==
  cStage = "decoded" =>
    LET M == BigEndian(cMsg)
        magnitude == cExp % 64
        expNegative == (cExp \div 64) % 2 = 1
        valueNegative == cExp >= 128
        signed == IF valueNegative THEN 0 - M ELSE M
    IN  /\ cValue.den > 0
        /\ IF expNegative
           THEN cValue.num * (10 ^ magnitude) = signed * cValue.den
           ELSE cValue.num = signed * (10 ^ magnitude) * cValue.den

\* Mantissa 1234 with exponent 2 and the exponent-sign bit set: 12.34.
C16_Witness ==
  /\ cStage = "decoded"
  /\ cMsg = <<4, 210>>
  /\ cExp = 66
  /\ cValue.num * 100 = 1234 * cValue.den

(***************************************************************************)
(* Properties of the resolution of specs, checked under RegistrySpec.      *)
(***************************************************************************)
Numerals == <<"0", "1", "2", "3", "4", "5", "6", "7", "8", "9",
              "a", "b", "c", "d", "e", "f">>

\* The digits of a numeral in the given base, capital letters included.
IsNumeral(text, base) ==
  /\ text # <<>>
  /\ \A i \in DOMAIN text : \E k \in 1..base : Numerals[k] = Lower(text)[i]

\* The number a numeral denotes in the given base.
RECURSIVE NumeralValue(_, _)
NumeralValue(text, base) ==
  IF text = <<>> THEN 0
  ELSE LET last == Lower(text)[Len(text)]
           digit == (CHOOSE k \in 1..base : Numerals[k] = last) - 1
       IN  base * NumeralValue(SubSeq(text, 1, Len(text) - 1), base) + digit

\* A spec that is a number: an int, a text of decimal digits, or a text of
\* hexadecimal digits after 0x.
IsNumericSpec(spec) ==
  \/ spec.kind = "int"
  \/ /\ spec.kind = "str"
     /\ \/ IsNumeral(spec.s, 10)
        \/ /\ Len(spec.s) > 2
           /\ SubSeq(spec.s, 1, 2) = <<"0", "x">>
           /\ IsNumeral(SubSeq(spec.s, 3, Len(spec.s)), 16)

NumberOf(spec) ==
  IF spec.kind = "int" THEN spec.n
  ELSE IF IsNumeral(spec.s, 10) THEN NumeralValue(spec.s, 10)
  ELSE NumeralValue(SubSeq(spec.s, 3, Len(spec.s)), 16)

Resolved == rStage = "resolved"

\* C17: every spec that is an integer, a text of decimal digits (leading
\* zeros included) or a 0x-prefixed hexadecimal text resolves to the number
\* it denotes, whatever the registry contains.
C17_NumericSpecResolvesToItsNumber ==
  (Resolved /\ IsNumericSpec(rSpec)) => rOut = Code(NumberOf(rSpec))

\* The model whose table the constructor is asked for: the default one (the
\* environment's, else 402) when none or "generic" is given.
DefaultModel == IF rEnv.given THEN rEnv.text ELSE <<"4", "0", "2">>

RequestedModel ==
  IF ~rVersion.given \/ rVersion.text = generic THEN DefaultModel ELSE rVersion.text

\* The overrides the table holds for the requested model, as a set.
ModelOverrides ==
  UNION { Range(row.overrides) : row \in {r \in Range(rTable) : r.version = RequestedModel} }

GenericEntries == Range(GENERIC_PARAMS)

\* A spec that is a symbolic name: a text that is neither digits nor
\* 0x-prefixed once the blanks around it are removed.
IsSymbolicName(spec) ==
  /\ spec.kind = "str"
  /\ ~IsNumeral(Strip(spec.s), 10)
  /\ ~(Len(Strip(spec.s)) >= 2 /\ SubSeq(Strip(spec.s), 1, 2) = <<"0", "x">>)

\* C18: a symbolic name resolves to the requested model's override address
\* when that model overrides the name, otherwise to the generic table's
\* address, and to no address when the name is in neither; no model and the
\* model "generic" stand for the default model.
C18_OverrideThenGenericThenNone ==
  (Resolved /\ IsSymbolicName(rSpec)) =>
    LET name == Strip(rSpec.s)
    IN  IF \E e \in ModelOverrides : e.name = name
        THEN \E e \in ModelOverrides : e.name = name /\ rOut = Code(e.code)
        ELSE IF \E e \in GenericEntries : e.name = name
        THEN \E e \in GenericEntries : e.name = name /\ rOut = Code(e.code)
        ELSE rOut = NoCode

\* Version 603 was requested by "generic" through the environment, its table
\* moves energy to 153, and energy resolved to 153.
C18_Witness ==
  /\ Resolved
  /\ rVersion = Version(generic)
  /\ rEnv = Version(version_603)
  /\ \E e \in ModelOverrides : e.name = energy /\ e.code = 153
  /\ rSpec = StrSpec(energy)
  /\ rOut = Code(153)

(***************************************************************************)
(* Properties of the loop of run() over the specs, checked under Spec.     *)
(***************************************************************************)
\* A spec with no address: a value of an unsupported type, or a symbolic name
\* the registry of the default version does not hold.
Unresolvable(spec) ==
  \/ spec.kind = "other"
  \/ /\ IsSymbolicName(spec)
     /\ ~\E e \in GenericEntries : e.name = Strip(spec.s)

\* A step of the parser, as opposed to a step of the meter (which only puts
\* bytes on the line).
ParserStep == pc' # pc \/ idx' # idx \/ trace' # trace

\* C19: when the spec the loop is at has no address, the step the parser
\* takes writes nothing to the transport, reads nothing from it, stores
\* nothing, raises nothing, and leaves the loop at the next spec.
C19_UnresolvedSpecIsSkipped ==
  [][(pc = "loop" /\ idx \in DOMAIN parameters /\ Unresolvable(parameters[idx])
        /\ ParserStep)
       => /\ written' = written
          /\ line' = line
          /\ consumed' = <<>>
  /\ UNCHANGED sending
          /\ values' = values
          /\ error' = error
          /\ pc' = "loop"
          /\ idx' = idx + 1]_vars

\* A value of an unsupported type was skipped and the spec after it was sent.
C19_Witness ==
  /\ parameters = <<OtherSpec, StrSpec(energy)>>
  /\ pc = "recv"
  /\ idx = 2
  /\ Len(written) = 1
  /\ trace[1].status = "unknown"

\* The number of specs the loop has started on.
SpecsStarted ==
  IF idx = 0 THEN 0
  ELSE IF pc = "loop" THEN idx - 1
  ELSE IF idx > Len(parameters) THEN Len(parameters)
  ELSE idx

\* C20: at every moment of a run the number of request frames written is at
\* most the number of specs the loop has started on, hence at most the number
\* of specs, whatever the outcome of each response.
C20_AtMostOneRequestPerSpec ==
  /\ Len(written) <= SpecsStarted
  /\ SpecsStarted <= Len(parameters)

\* Two specs were sent, the first timed out, the second was answered with a
\* frame whose checksum is wrong, and run returned with two requests written.
C20_Witness ==
  /\ Returned
  /\ Len(parameters) = 2
  /\ Len(written) = 2
  /\ trace[1].status = "timeout"
  /\ trace[2].status = "crc"

(***************************************************************************)
(* Properties of the life cycle of the transport in run(), checked under   *)
(* Spec.                                                                   *)
(***************************************************************************)
\* run() is over: it returned its dict, or an exception left it.
Ended == pc \in {"done", "raised"}

\* The step of run() from its entry to the for loop (or to its return).
OpeningStep == pc = "idle" /\ ~serialNone /\ pc' # "idle"

\* C21: whether the transport is found open or not, open() is called before
\* the first request, no request is written unless that open succeeded, and
\* a run that opened the transport has closed it when it is over, whatever
\* happened in the steps for the specs.
C21_OpenedBeforeAndClosedAfter ==
  /\ [][OpeningStep =>
          /\ openResult' \in {"ok", "failed"}
          /\ is_open' = (openResult' = "ok")
          /\ written' = <<>>]_vars
  /\ [](written # <<>> => openResult = "ok")
  /\ []((Ended /\ openResult = "ok") => ~is_open)

\* C22: a request is written only between two transactions, never while recv
\* reads the response to the previous one, and never while the meter is in
\* the middle of transmitting a response.
C22_RequestsAreSerialized ==
  [][written' # written => (pc = "loop" /\ sending = <<>>)]_vars

\* The last bytes the meter has sent to this call of recv (read or still on
\* the line) are the well-formed frame that answers the request of the spec
\* just processed, and the meter has nothing more to send.
AnsweredLastRequest ==
  /\ pc = "loop"
  /\ trace # <<>>
  /\ LastEntry.wrote = "ok"
  /\ unanswered = <<>>
  /\ sending = <<>>
  /\ LET sent == consumed \o line
         good == LateResponse[LastEntry.code]
     IN  /\ Len(sent) >= Len(good)
         /\ SubSeq(sent, Len(sent) - Len(good) + 1, Len(sent)) = good

\* C23: when the meter has answered the request of a spec with the
\* checksum-valid frame that echoes its address and no read of a byte timed
\* out, the spec is recorded, whatever happened to the specs before it (a
\* timeout followed by a late response included).
C23_AnsweredSpecIsRecorded ==
  (AnsweredLastRequest /\ LastEntry.status # "timeout") => LastEntry.status = "ok"

(***************************************************************************)
(* Properties of run() on a trickling transport, checked under             *)
(* TrickleSpec.                                                            *)
(***************************************************************************)
\* C24: recv stops reading only when the byte read is the terminator or when
\* a read times out, however many bytes it has accumulated; and when every
\* read comes to one of the two, run ends for every list of specs.
C24_ReadEndsOnlyOnTerminatorOrTimeout ==
  /\ [][(pc = "recv" /\ pc' # "recv") =>
          \/ line = <<>> /\ pc' = "loop"
          \/ line # <<>> /\ Head(line) = 13 /\ pc' = "frame"]_vars
  /\ <>Ended

\* A read that accumulated more bytes than a response of the meter has: the
\* first bytes of a response, trickled bytes, and the rest of the response.
C24_Witness ==
  /\ pc = "frame"
  /\ Len(receivedMessage) > 13
  /\ TrickleByte \in Range(receivedMessage)

(***************************************************************************)
(* C25: under every interleaving of the connection callbacks with the      *)
(* daemon loop, discovery is marked as published only if a discovery       *)
(* message for each enabled parameter was given to the MQTT client.        *)
(***************************************************************************)
C25_MarkedOnlyIfDiscoverySent ==
  ha_discovery_published =>
    \A i \in DOMAIN enabled_parameters :
      \E k \in DOMAIN discovery : discovery[k].param = enabled_parameters[i]

\* The names the parser recorded in this cycle, in the order of the dict.
RecordedNames == [i \in DOMAIN readings |-> readings[i].key]

\* The specs of this cycle whose transaction ended with a value.
SucceededNames ==
  {enabled_parameters[i] : i \in {j \in DOMAIN outcomes : outcomes[j] = "ok"}}

\* The cycle is over: the loop is at its sleep.
CycleOver == dpc = "sleep"

(***************************************************************************)
(* C26: in each polling cycle the messages handed to the publisher are,    *)
(* in order, one per key of the dict the meter read of this cycle          *)
(* returned, each carrying this cycle's value as text; the keys are the    *)
(* parameters that succeeded in this cycle; a read that raised or returned *)
(* an empty dict hands over nothing; and at the end of the cycle every key *)
(* has its message even when the publishing of an earlier one failed.      *)
(***************************************************************************)
C26_OneMessagePerReadingOfTheCycle ==
  /\ Len(handed) <= Len(readings)
  /\ \A i \in DOMAIN handed :
       /\ handed[i].name = readings[i].key
       /\ handed[i].message = Str(Reading(cycle))
  /\ Range(RecordedNames) \subseteq SucceededNames
  /\ "raised" \in Range(outcomes) => handed = <<>>
  /\ (CycleOver /\ "raised" \notin Range(outcomes)) =>
        /\ Len(handed) = Len(readings)
        /\ Range(RecordedNames) = SucceededNames

\* The second cycle ended with the first metric failing to publish and the
\* second one handed over all the same.
C26_Witness ==
  /\ CycleOver
  /\ cycle = MaxCycles
  /\ Len(handed) = 2
  /\ handed[1].result = "error"

(***************************************************************************)
(* C27: for every enabled registry name the state_topic of its discovery   *)
(* message is the topic on which its value is published.                   *)
(***************************************************************************)
C27_StateTopicIsPublishTopic ==
  \A k \in DOMAIN discovery : \A i \in DOMAIN handed :
    discovery[k].param = handed[i].name => discovery[k].state_topic = handed[i].topic

(***************************************************************************)
(* C28: once a signal is handled nothing more is written to the meter or   *)
(* handed to the MQTT client, and when the process has exited the          *)
(* transport is closed and the MQTT client stopped and disconnected.       *)
(***************************************************************************)
C28_GracefulShutdown ==
  /\ [][signalled =>
          /\ requests' = requests
          /\ handed' = handed
          /\ discovery' = discovery]_vars
  /\ [](signalled => dpc = "exited")
  /\ [](dpc = "exited" => (~meter_open /\ loop_stopped /\ disconnected))

\* The signal arrived during a meter transaction: between two requests.
C28_Witness ==
  /\ dpc = "exited"
  /\ signalled
  /\ requests > 0
  /\ 0 < Len(outcomes)
  /\ Len(outcomes) < Len(enabled_parameters)

\* The bytes of a command between its prefix byte and its last byte.
Interior(command) == SubSeq(command, 2, Len(command) - 1)

\* From position j on, s is made of plain bytes that are not reserved and of
\* pairs of 0x1B and a byte that is not reserved.
RECURSIVE WellStuffedFrom(_, _)
WellStuffedFrom(s, j) ==
  IF j > Len(s) THEN TRUE
  ELSE IF s[j] = 27
       THEN /\ j + 1 <= Len(s)
            /\ s[j + 1] \notin {6, 13, 27, 64, 128}
            /\ WellStuffedFrom(s, j + 2)
       ELSE /\ s[j] \notin {6, 13, 64, 128}
            /\ WellStuffedFrom(s, j + 1)

(***************************************************************************)
(* C29: in every command send builds, for every body, 0x0D is the last     *)
(* byte and occurs nowhere else, and between the prefix byte and the       *)
(* terminator none of 0x06, 0x0D, 0x40, 0x80 occurs, 0x1B occurs only as   *)
(* the first byte of a pair, and the second byte of a pair is not a        *)
(* reserved value.                                                         *)
(***************************************************************************)
C29_FramingBytesAreUnambiguous ==
  cStage = "sent" =>
    /\ Len(cOut) >= 4
    /\ cOut[1] = cPrefix
    /\ cOut[Len(cOut)] = 13
    /\ \A i \in 1..(Len(cOut) - 1) : cOut[i] # 13
    /\ \A i \in 2..(Len(cOut) - 1) : cOut[i] \notin {6, 13, 64, 128}
    /\ WellStuffedFrom(Interior(cOut), 1)

\* A command sent for a body of reserved bytes: three pairs, then the checksum.
C29_Witness ==
  /\ cStage = "sent"
  /\ cPrefix = 128
  /\ cMsg = <<128, 13, 27>>
  /\ SubSeq(cOut, 1, 7) = <<128, 27, 127, 27, 242, 27, 228>>

====
